---- MODULE Spec2Model ----
(***************************************************************************)
(* Model of app.py: the defect-inspection upload service.                  *)
(*                                                                         *)
(* Persistent state: the ledger file history.json, the upload storage      *)
(* area and the report storage area.  One HTTP request is handled at a     *)
(* time; pc is its position inside the handler, and the remaining          *)
(* variables are the handler's locals.  process_video is stepped one loop  *)
(* iteration at a time.                                                    *)
(***************************************************************************)
EXTENDS Integers, Sequences, FiniteSets, TLC

\* ------------------------------------------------------------------ bounds
MaxReq == 2          \* requests served in one behaviour
MaxFrames == 3       \* frames a video source delivers
MaxId == 2           \* track ids the tracker hands out are 1..MaxId
MaxDet == 2          \* boxes the detector returns for one image

TrackIds == 1..MaxId

\* Python's None
None == "None"

\* ------------------------------------------------------------- file names
\* a stored name: prefix + uuid + '_' + original name (only its extension matters)
Name(prefix, id, ext) == [prefix |-> prefix, id |-> id, ext |-> ext]

\* extensions an upload may carry
Exts == {".mp4", ".png"}

\* line 109: ext in ['.mp4', '.avi', '.mov']
IsVideoExt(ext) == ext \in {".mp4", ".avi", ".mov"}

\* ------------------------------------------------------------------- JSON
\* json.dump of one Python scalar: an int becomes a number token, a bool the
\* literal true/false, a str (dates, names, error texts) a string token.
EncValue(key, v) ==
  CASE key = "count_defect" -> [num |-> v]
    [] key = "is_video"     -> [lit |-> IF v THEN "true" ELSE "false"]
    [] OTHER                -> [str |-> v]

\* json.load of one token
DecValue(key, t) ==
  CASE key = "count_defect" -> t.num
    [] key = "is_video"     -> (t.lit = "true")
    [] OTHER                -> t.str

\* json.dump / json.load of one record (a dict with string keys)
EncRecord(r) == [k \in DOMAIN r |-> EncValue(k, r[k])]
DecRecord(o) == [k \in DOMAIN o |-> DecValue(k, o[k])]

\* Contents the ledger file can have on disk.
\*   missing      no file
\*   empty        zero bytes
\*   truncated    cut-off JSON text
\*   undecodable  bytes that are not text in the file's encoding
\*   object       well-formed JSON whose top-level value is a non-empty object
\*   null         well-formed JSON whose top-level value is null
\*   array        a serialized sequence of records
FileOf(kind, items) == [kind |-> kind, items |-> items]

\* Python values load_history can return
PyList(items) == [type |-> "list", items |-> items]
PyDict == [type |-> "dict", items |-> <<>>]
PyNone == [type |-> "NoneType", items |-> <<>>]

\* lines 35-42.  raised names the exception that escapes, None when it returns.
\* Only json.JSONDecodeError is caught: text that cannot be decoded raises
\* UnicodeDecodeError, and well-formed JSON is returned whatever its type.
load_history(file) ==
  CASE file.kind = "missing"     -> [raised |-> None, value |-> PyList(<<>>)]
    [] file.kind \in {"empty", "truncated"} -> [raised |-> None, value |-> PyList(<<>>)]
    [] file.kind = "undecodable" -> [raised |-> "UnicodeDecodeError", value |-> PyNone]
    [] file.kind = "object"      -> [raised |-> None, value |-> PyDict]
    [] file.kind = "null"        -> [raised |-> None, value |-> PyNone]
    [] OTHER -> [raised |-> None,
                 value |-> PyList([i \in 1..Len(file.items) |-> DecRecord(file.items[i])])]

\* lines 44-46: the file is rewritten with the whole list
save_history(history) ==
  FileOf("array", [i \in 1..Len(history) |-> EncRecord(history[i])])

\* Python truthiness, as in `if not history` (line 163)
Truthy(v) ==
  CASE v.type = "list" -> v.items # <<>>
    [] v.type = "dict" -> TRUE
    [] OTHER -> FALSE

\* the new record is inserted in front of the loaded ones
AppendToLedgerFront(file, rec) ==
  LET h == load_history(file) IN
  IF h.raised # None THEN [raised |-> h.raised, file |-> file]
  ELSE IF h.value.type # "list" THEN [raised |-> "AttributeError", file |-> file]
  ELSE [raised |-> None, file |-> save_history(<<rec>> \o h.value.items)]

\* lines 129-136 and 139-146: load_history(), history.append(rec), save_history().
\* list.append exists only on a list; any other loaded value raises AttributeError
\* before the file is opened for writing.
AppendToLedger(file, rec) ==
  LET h == load_history(file) IN
  IF h.raised # None THEN [raised |-> h.raised, file |-> file]
  ELSE IF h.value.type # "list" THEN [raised |-> "AttributeError", file |-> file]
  ELSE [raised |-> None, file |-> save_history(Append(h.value.items, rec))]

\* ------------------------------------------------------------------ state
VARIABLES
  historyFile,   \* content of HISTORY_FILE
  uploads,       \* files in UPLOAD_FOLDER
  reports,       \* files in REPORT_FOLDER
  now,           \* clock: datetime.now() and the uuid of a request
  pc,            \* position of the request being handled
  op,            \* the handler of the current (or last) request
  filename,      \* upload_file: stored name of the upload
  is_video,      \* upload_file: line 109
  results,       \* upload_file: what model(filepath) returned (image mode)
  undeleted,     \* clear_history: the files whose os.remove raised
  cap,           \* process_video: the source handle
  out,           \* process_video: the sink handle
  frames,        \* process_video: the frames cap.read() has delivered so far
  observed,      \* process_video: the track ids model.track has returned so far
  reobserved,    \* process_video: some call returned an id an earlier frame had
  written,       \* process_video: the frames passed to out.write(), in order
  unique_ids,    \* process_video: line 63
  outcome,       \* what the try block of upload_file produced
  response,      \* what the caller received
  tracker,       \* line 33: the tracker kept by the global model holds identity state
  threads,       \* overlapping requests: role, position and loaded list of each
  original       \* overlapping requests: the ledger before any of them began

vars == <<historyFile, uploads, reports, now, pc, op, filename, is_video, results,
          undeleted,
          cap, out, frames, observed, reobserved, written, unique_ids, outcome, response,
          tracker, threads, original>>

persistent == <<historyFile, uploads, reports>>
videoLocals == <<cap, out, frames, observed, reobserved, written, unique_ids>>
overlapping == <<threads, original>>

\* lines 216-217: the development server handles each request in a thread of
\* its own; NThreads of them overlap
NThreads == 2
Threads == 1..NThreads
Thread(role, at, loaded) == [role |-> role, pc |-> at, loaded |-> loaded]
NoThread == Thread("none", "done", <<>>)

File(name, size) == [name |-> name, size |-> size]

\* what the caller receives: the kind of response and the text it carries
Response(kind, text) == [kind |-> kind, text |-> text]
NoResponse == Response("none", None)

NoName == Name("", 0, "")
NoneUndeleted == [uploads |-> {}, reports |-> {}]
\* What one detector call returns, as far as the code reads it: the number of
\* boxes, and boxes.id, which is None (has_id FALSE) or one track id per box.
Results(boxes, has_id, ids) == [boxes |-> boxes, has_id |-> has_id, ids |-> ids]
NoResults == Results(0, FALSE, {})
NoOutcome == [ok |-> FALSE, output_filename |-> NoName, defect_count |-> 0, error |-> None]
Success(name, count) ==
  [ok |-> TRUE, output_filename |-> name, defect_count |-> count, error |-> None]
Failure(text) ==
  [ok |-> FALSE, output_filename |-> NoName, defect_count |-> 0, error |-> text]

\* a record left in the ledger by an earlier run of the service
OldRecord == [date |-> 0, file |-> Name("annotated_", 0, ".png"),
              count_defect |-> 0, is_video |-> FALSE]

InitialLedgers ==
  {FileOf(k, <<>>) : k \in {"missing", "empty", "truncated", "undecodable",
                            "object", "null", "array"}}
    \cup {save_history(<<OldRecord>>)}

Init ==
  /\ historyFile \in InitialLedgers
  /\ uploads = {}
  /\ reports = <<>>
  /\ now = 0
  /\ pc = "idle"
  /\ op = None
  /\ filename = NoName
  /\ is_video = FALSE
  /\ results = NoResults
  /\ undeleted = NoneUndeleted
  /\ cap = "none"
  /\ out = "none"
  /\ frames = <<>>
  /\ observed = {}
  /\ reobserved = FALSE
  /\ written = <<>>
  /\ unique_ids = {}
  /\ outcome = NoOutcome
  /\ response = NoResponse
  /\ tracker = FALSE
  /\ threads = [t \in Threads |-> NoThread]
  /\ original = <<>>

\* the locals of process_video before the call and after it has returned or raised
FreshVideoLocals ==
  /\ cap' = "none"
  /\ out' = "none"
  /\ frames' = <<>>
  /\ observed' = {}
  /\ reobserved' = FALSE
  /\ written' = <<>>
  /\ unique_ids' = {}

\* a new request starts with fresh locals
FreshLocals ==
  /\ results' = NoResults
  /\ undeleted' = NoneUndeleted
  /\ FreshVideoLocals
  /\ outcome' = NoOutcome

CanStart == pc = "idle" /\ now < MaxReq

\* ------------------------------------------------------------ upload_file
\* lines 98-102: no file part, or an empty file name: redirect, nothing stored
UploadRedirect ==
  /\ CanStart
  /\ now' = now + 1
  /\ op' = "upload"
  /\ filename' = NoName
  /\ is_video' = FALSE
  /\ FreshLocals
  /\ response' = Response("redirect", None)
  /\ UNCHANGED <<tracker, overlapping>>
  /\ UNCHANGED <<persistent, pc>>

\* lines 104-109: the upload is stored under a fresh name and classified
UploadStart(ext) ==
  /\ CanStart
  /\ now' = now + 1
  /\ op' = "upload"
  /\ filename' = Name("", now + 1, ext)
  /\ is_video' = IsVideoExt(ext)
  /\ uploads' = uploads \cup {File(Name("", now + 1, ext), 1)}
  /\ FreshLocals
  /\ response' = NoResponse
  /\ pc' = "try"
  /\ UNCHANGED <<tracker, overlapping>>
  /\ UNCHANGED <<historyFile, reports>>

\* lines 116-122: the identities of an image's detections
ImageIds(res) == IF res.has_id THEN res.ids ELSE {}

\* what a detector call on an image can return
ImageResults ==
  {Results(n, FALSE, {}) : n \in 0..MaxDet}
    \cup {Results(Cardinality(s), TRUE, s) : s \in (SUBSET TrackIds) \ {{}}}

\* lines 115-127, image mode.  imwrite is "ok", "false" (cv2.imwrite returns
\* False and writes nothing; the return value is not looked at) or "raises".
ImageProcess(res, imwrite) ==
  /\ pc = "try" /\ ~is_video
  /\ results' = res
  /\ IF imwrite = "raises"
       THEN /\ outcome' = Failure("imwrite")
            /\ pc' = "except"
            /\ UNCHANGED uploads
       ELSE /\ outcome' = Success(Name("annotated_", filename.id, filename.ext),
                                  Cardinality(ImageIds(res)))
            /\ pc' = "record"
            /\ uploads' = IF imwrite = "ok"
                            THEN uploads \cup
                                 {File(Name("annotated_", filename.id, filename.ext), 1)}
                            ELSE uploads
  /\ UNCHANGED <<tracker, overlapping>>
  /\ UNCHANGED <<historyFile, reports, now, op, filename, is_video, undeleted,
                 videoLocals, response>>

\* line 115 raising (unreadable image, inference failure)
ImageDetectRaises ==
  /\ pc = "try" /\ ~is_video
  /\ outcome' = Failure("detect")
  /\ pc' = "except"
  /\ UNCHANGED <<tracker, overlapping>>
  /\ UNCHANGED <<persistent, now, op, filename, is_video, results, undeleted, videoLocals, response>>

\* ---------------------------------------------------------- process_video
\* open(path, 'w') / a writer creating its file: the entry of that name is replaced
PutFile(dir, name, size) == {f \in dir : f.name # name} \cup {File(name, size)}

\* lines 56-57
OutputName == Name("processed_", filename.id, filename.ext)

\* line 72 / 82: the annotated frame is the plot of the frame just read; it is
\* identified by that frame's position in the source
Annotated(frameNo) == frameNo

\* the set is replaced by the ids of the current frame instead of extended
AddIdsPerFrame(ids, res) == IF res.has_id THEN res.ids ELSE ids

\* lines 74-79: every returned id is added to the run's set
AddIds(ids, res) == IF res.has_id THEN ids \cup res.ids ELSE ids

\* the newest frame is put in front of the ones already written
SinkWriteFront(sink, frame) == <<frame>> \o sink

\* line 82: the frame is appended to the sink
SinkWrite(sink, frame) == Append(sink, frame)

\* what one model.track call can return for a frame
TrackResults ==
  {Results(0, FALSE, {})}
    \cup {Results(Cardinality(s), TRUE, s) : s \in (SUBSET TrackIds) \ {{}}}

\* a frame delivered by cap.read(): frame.size == 0 or not
Frame(empty) == [empty |-> empty]

\* lines 49-61.  The source handle is acquired, then the sink.  A sink that does
\* not open raises at line 61, with the source still held; whether the failed
\* open left a zero-size file behind depends on the backend.
VideoOpen(opened, leftover) ==
  /\ pc = "try" /\ is_video
  /\ cap' = "open"
  /\ IF opened
       THEN /\ out' = "open"
            /\ uploads' = PutFile(uploads, OutputName, 0)
            /\ pc' = "loop"
            /\ UNCHANGED outcome
       ELSE /\ out' = "failed"
            /\ uploads' = IF leftover THEN PutFile(uploads, OutputName, 0) ELSE uploads
            /\ outcome' = Failure("VideoWriter")
            /\ pc' = "except"
  /\ UNCHANGED <<tracker, overlapping>>
  /\ UNCHANGED <<historyFile, reports, now, op, filename, is_video, results, undeleted,
                 frames, observed, reobserved, written, unique_ids, response>>

\* lines 65-67: the read fails (end of stream): the loop ends
VideoEof ==
  /\ pc = "loop"
  /\ pc' = "release"
  /\ UNCHANGED <<tracker, overlapping>>
  /\ UNCHANGED <<persistent, now, op, filename, is_video, results, undeleted, videoLocals,
                 outcome, response>>

\* the empty frame ends the loop (break instead of continue)
VideoEmptyFrameBreaks ==
  /\ pc = "loop" /\ Len(frames) < MaxFrames
  /\ frames' = Append(frames, Frame(TRUE))
  /\ pc' = "release"
  /\ UNCHANGED <<tracker, overlapping>>
  /\ UNCHANGED <<persistent, now, op, filename, is_video, results, undeleted, cap, out,
                 observed, reobserved, written, unique_ids, outcome, response>>

\* lines 68-69: an empty frame is skipped
VideoEmptyFrame ==
  /\ pc = "loop" /\ Len(frames) < MaxFrames
  /\ frames' = Append(frames, Frame(TRUE))
  /\ UNCHANGED <<tracker, overlapping>>
  /\ UNCHANGED <<persistent, now, op, filename, is_video, results, undeleted, cap, out,
                 observed, reobserved, written, unique_ids, pc, outcome, response>>

\* lines 71-82: one frame is tracked, its ids are added, its plot is written
VideoFrame(res) ==
  /\ pc = "loop" /\ Len(frames) < MaxFrames
  /\ frames' = Append(frames, Frame(FALSE))
  /\ observed' = observed \cup (IF res.has_id THEN res.ids ELSE {})
  /\ reobserved' = (reobserved \/ (res.has_id /\ res.ids \cap observed # {}))
  /\ unique_ids' = AddIds(unique_ids, res)
  /\ written' = SinkWrite(written, Annotated(Len(frames) + 1))
  /\ tracker' = TRUE
  /\ UNCHANGED overlapping
  /\ UNCHANGED <<persistent, now, op, filename, is_video, results, undeleted, cap, out,
                 pc, outcome, response>>

\* line 71 raising: the exception leaves process_video from inside the loop;
\* the call has returned no identity and the tracker has recorded none
VideoTrackRaises ==
  /\ pc = "loop" /\ Len(frames) < MaxFrames
  /\ frames' = Append(frames, Frame(FALSE))
  /\ outcome' = Failure("track")
  /\ pc' = "except"
  /\ UNCHANGED <<tracker, overlapping>>
  /\ UNCHANGED <<persistent, now, op, filename, is_video, results, undeleted, cap, out,
                 observed, reobserved, written, unique_ids, response>>

\* line 82 raising, after the frame was tracked
VideoWriteRaises(res) ==
  /\ pc = "loop" /\ Len(frames) < MaxFrames
  /\ frames' = Append(frames, Frame(FALSE))
  /\ observed' = observed \cup (IF res.has_id THEN res.ids ELSE {})
  /\ reobserved' = (reobserved \/ (res.has_id /\ res.ids \cap observed # {}))
  /\ unique_ids' = AddIds(unique_ids, res)
  /\ outcome' = Failure("write")
  /\ pc' = "except"
  /\ tracker' = TRUE
  /\ UNCHANGED overlapping
  /\ UNCHANGED <<persistent, now, op, filename, is_video, results, undeleted, cap, out,
                 written, response>>

\* line 90
DefectCount(ids) == Cardinality(ids)

\* lines 84-90: both handles are released, then the size of the output file
\* decides.  size is what os.path.getsize finds: 0 for an empty file.
VideoRelease(size) ==
  /\ pc = "release"
  /\ cap' = "released"
  /\ out' = "released"
  /\ uploads' = PutFile(uploads, OutputName, size)
  /\ IF size = 0
       THEN /\ outcome' = Failure("no frames")
            /\ pc' = "except"
       ELSE /\ outcome' = Success(OutputName, DefectCount(unique_ids))
            /\ pc' = "record"
  /\ UNCHANGED <<tracker, overlapping>>
  /\ UNCHANGED <<historyFile, reports, now, op, filename, is_video, results, undeleted,
                 frames, observed, reobserved, written, unique_ids, response>>

\* ------------------------------------------------- upload_file, recording
\* lines 130-135
FailedRecord == [date |-> now, file |-> filename, error |-> outcome.error,
                 is_video |-> is_video]

\* lines 140-145
SuccessRecord == [date |-> now, file |-> outcome.output_filename,
                  count_defect |-> outcome.defect_count, is_video |-> is_video]

\* upload_file has returned: its locals, and those of process_video, are gone
Returned ==
  /\ filename' = NoName
  /\ is_video' = FALSE
  /\ results' = NoResults
  /\ outcome' = NoOutcome
  /\ FreshVideoLocals

\* lines 128-137: the except branch.  An exception raised by the ledger calls
\* themselves is not caught: the request ends as a server error.
RecordFailure ==
  /\ pc = "except"
  /\ LET r == AppendToLedger(historyFile, FailedRecord) IN
       /\ historyFile' = r.file
       /\ response' = IF r.raised = None
                        THEN Response("error", outcome.error)
                        ELSE Response("500", r.raised)
  /\ pc' = "idle"
  /\ Returned
  /\ UNCHANGED <<tracker, overlapping>>
  /\ UNCHANGED <<uploads, reports, now, op, undeleted>>

\* lines 139-148
RecordSuccess ==
  /\ pc = "record"
  /\ LET r == AppendToLedger(historyFile, SuccessRecord) IN
       /\ historyFile' = r.file
       /\ response' = IF r.raised = None
                        THEN Response("result", None)
                        ELSE Response("500", r.raised)
  /\ pc' = "idle"
  /\ Returned
  /\ UNCHANGED <<tracker, overlapping>>
  /\ UNCHANGED <<uploads, reports, now, op, undeleted>>

\* -------------------------------------------------------- generate_report
JSON_NAME == "defect_information.json"
PDF_NAME == "defect_information.pdf"

\* str() of an int
PyStr(n) == [digits |-> n]

\* the two kind labels are exchanged
ReportRowSwapped(entry) ==
  [date  |-> entry.date,
   file  |-> entry.file,
   type  |-> IF entry.is_video THEN "Picture" ELSE "Video",
   count |-> PyStr(IF "count_defect" \in DOMAIN entry THEN entry.count_defect ELSE 0)]

\* lines 179-183: one table row of a ledger entry
ReportRow(entry) ==
  [date  |-> entry.date,
   file  |-> entry.file,
   type  |-> IF entry.is_video THEN "Video" ELSE "Picture",
   count |-> PyStr(IF "count_defect" \in DOMAIN entry THEN entry.count_defect ELSE 0)]

\* lines 177-185
ReportTable(history) ==
  [header |-> <<"Date", "File", "Type", "Defect Count">>,
   rows   |-> [i \in 1..Len(history) |-> ReportRow(history[i])]]

\* lines 167-168: json.dump of whatever load_history returned
DumpValue(v) ==
  CASE v.type = "list" -> save_history(v.items)
    [] v.type = "dict" -> FileOf("object", <<>>)
    [] OTHER -> FileOf("null", <<>>)

\* a storage area as a function from file names to contents
WriteFile(dir, name, content) ==
  [n \in DOMAIN dir \cup {name} |-> IF n = name THEN content ELSE dir[n]]

\* lines 160-198.  An empty (falsy) history returns before anything is written.
\* Otherwise the side-file is written first; the rows are then read with
\* entry.get, which only the entries of a list of records have.
generate_report_effect(file, dir) ==
  LET h == load_history(file) IN
  IF h.raised # None THEN [reports |-> dir, response |-> Response("500", h.raised)]
  ELSE IF ~Truthy(h.value)
    THEN [reports |-> dir, response |-> Response("nothing", None)]
  ELSE IF h.value.type # "list"
    THEN [reports |-> WriteFile(dir, JSON_NAME, DumpValue(h.value)),
          response |-> Response("500", "AttributeError")]
  ELSE [reports |-> WriteFile(WriteFile(dir, JSON_NAME, DumpValue(h.value)),
                              PDF_NAME, ReportTable(h.value.items)),
        response |-> Response("pdf", None)]

GenerateReport ==
  /\ CanStart
  /\ now' = now + 1
  /\ op' = "report"
  /\ filename' = NoName
  /\ is_video' = FALSE
  /\ FreshLocals
  /\ LET e == generate_report_effect(historyFile, reports) IN
       /\ reports' = e.reports
       /\ response' = e.response
  /\ UNCHANGED <<tracker, overlapping>>
  /\ UNCHANGED <<historyFile, uploads, pc>>

\* ---------------------------------------------------------- clear_history
\* the loop stops at the first os.remove that raises: nothing is deleted
RemoveAllAbort(dir, undeletable) == IF undeletable = {} THEN {} ELSE dir

\* lines 205-212: every file is tried; one whose os.remove raises stays
RemoveAll(dir, undeletable) == dir \cap undeletable
RemoveAllNamed(dir, undeletable) == [n \in DOMAIN dir \cap undeletable |-> dir[n]]

\* lines 200-214: keepU and keepR are the files whose deletion fails
ClearHistory(keepU, keepR) ==
  /\ CanStart
  /\ now' = now + 1
  /\ op' = "clear"
  /\ filename' = NoName
  /\ is_video' = FALSE
  /\ results' = NoResults
  /\ outcome' = NoOutcome
  /\ FreshVideoLocals
  /\ undeleted' = [uploads |-> keepU, reports |-> keepR]
  /\ historyFile' = save_history(<<>>)
  /\ uploads' = RemoveAll(uploads, keepU)
  /\ reports' = RemoveAllNamed(reports, keepR)
  /\ response' = Response("redirect", None)
  /\ UNCHANGED <<tracker, overlapping>>
  /\ UNCHANGED pc

\* ------------------------------------------------------------------- spec
OutputSizes == {0, 1}
ImwriteOutcomes == {"ok", "false", "raises"}

Next ==
  \/ UploadRedirect
  \/ \E ext \in Exts : UploadStart(ext)
  \/ \E res \in ImageResults, w \in ImwriteOutcomes : ImageProcess(res, w)
  \/ ImageDetectRaises
  \/ \E opened \in BOOLEAN, leftover \in BOOLEAN : VideoOpen(opened, leftover)
  \/ VideoEof
  \/ VideoEmptyFrame
  \/ \E res \in TrackResults : VideoFrame(res)
  \/ VideoTrackRaises
  \/ \E res \in TrackResults : VideoWriteRaises(res)
  \/ \E size \in OutputSizes : VideoRelease(size)
  \/ RecordFailure
  \/ RecordSuccess
  \/ GenerateReport
  \/ \E keepU \in SUBSET uploads, keepR \in SUBSET (DOMAIN reports) :
       ClearHistory(keepU, keepR)

Spec == Init /\ [][Next]_vars

\* ---------------------------------------------------- overlapping requests
\* Requests handled at the same time share HISTORY_FILE and nothing else.  An
\* upload thread is followed from line 139 (or 129) on: load_history, append,
\* save_history.  A report thread runs generate_report, which reads the ledger
\* once.
sequential == <<uploads, now, pc, op, filename, is_video, results, undeleted,
                cap, out, frames, observed, reobserved, written, unique_ids, outcome,
                response, tracker>>

\* lines 140-145, for the upload handled by thread t
ThreadRecord(t) == [date |-> t, file |-> Name("annotated_", t, ".png"),
                    count_defect |-> 0, is_video |-> FALSE]

\* line 146: the list thread t passes to save_history
ThreadHistory(t) == Append(threads[t].loaded, ThreadRecord(t))

\* a save_history call is between its open (line 45) and the end of its with
\* block (line 46)
Saving(t) == threads[t].pc \in {"opened", "flushed"}

\* The bytes of content written from offset 0 into a file that was not
\* truncated since the writer opened it.  Over an empty file they are the
\* file; over at most as many records they replace them; over a longer file the
\* tail of the old text stays behind them, and over cut-off text of another
\* writer either may happen: text with a tail is read as malformed JSON.
WriteOver(current, content) ==
  CASE current.kind \in {"missing", "empty"} -> {content}
    [] current.kind = "array" ->
         IF Len(current.items) <= Len(content.items)
           THEN {content}
           ELSE {FileOf("truncated", <<>>)}
    [] OTHER -> {content, FileOf("truncated", <<>>)}

InitialWellFormedLedgers ==
  {FileOf("missing", <<>>), save_history(<<>>), save_history(<<OldRecord>>)}

InitOverlapping ==
  /\ historyFile \in InitialWellFormedLedgers
  /\ uploads = {}
  /\ reports = <<>>
  /\ now = 0
  /\ pc = "idle"
  /\ op = None
  /\ filename = NoName
  /\ is_video = FALSE
  /\ results = NoResults
  /\ undeleted = NoneUndeleted
  /\ cap = "none"
  /\ out = "none"
  /\ frames = <<>>
  /\ observed = {}
  /\ reobserved = FALSE
  /\ written = <<>>
  /\ unique_ids = {}
  /\ outcome = NoOutcome
  /\ response = NoResponse
  /\ tracker = FALSE
  /\ threads \in [Threads -> {Thread(r, "start", <<>>) : r \in {"upload", "report"}}]
  /\ original = load_history(historyFile).value.items

\* lines 139 and 35-42, by an upload thread: the file as it is at this moment
ThreadLoad(t) ==
  /\ threads[t].role = "upload" /\ threads[t].pc = "start"
  /\ threads' = [threads EXCEPT
                   ![t] = Thread("upload", "loaded", load_history(historyFile).value.items)]
  /\ UNCHANGED <<historyFile, reports, original, sequential>>

\* line 45: open(HISTORY_FILE, 'w') creates the file or cuts it to zero bytes
ThreadOpen(t) ==
  /\ threads[t].pc = "loaded"
  /\ historyFile' = FileOf("empty", <<>>)
  /\ threads' = [threads EXCEPT ![t].pc = "opened"]
  /\ UNCHANGED <<reports, original, sequential>>

\* line 46: json.dump writes the text piece by piece; a first part of it can
\* reach the file before the rest does
ThreadFlush(t) ==
  /\ threads[t].pc = "opened"
  /\ historyFile' = FileOf("truncated", <<>>)
  /\ threads' = [threads EXCEPT ![t].pc = "flushed"]
  /\ UNCHANGED <<reports, original, sequential>>

\* line 46, end of the with block: the whole text of the list is in the file
ThreadClose(t) ==
  /\ Saving(t)
  /\ historyFile' \in WriteOver(historyFile, save_history(ThreadHistory(t)))
  /\ threads' = [threads EXCEPT ![t].pc = "done"]
  /\ UNCHANGED <<reports, original, sequential>>

\* lines 160-198, by a report thread
ThreadReport(t) ==
  /\ threads[t].role = "report" /\ threads[t].pc = "start"
  /\ threads' = [threads EXCEPT
                   ![t] = Thread("report", "done", load_history(historyFile).value.items)]
  /\ reports' = generate_report_effect(historyFile, reports).reports
  /\ UNCHANGED <<historyFile, original, sequential>>

NextOverlapping ==
  \/ \E t \in Threads : ThreadLoad(t)
  \/ \E t \in Threads : ThreadOpen(t)
  \/ \E t \in Threads : ThreadFlush(t)
  \/ \E t \in Threads : ThreadClose(t)
  \/ \E t \in Threads : ThreadReport(t)

SpecOverlapping == InitOverlapping /\ [][NextOverlapping]_vars

\* ------------------------------------------------- a well-formed ledger file
\* The service started with HISTORY_FILE absent or holding a serialized
\* sequence of records; every later write is a save_history.
InitWellFormed == Init /\ historyFile \in InitialWellFormedLedgers

SpecWellFormed == InitWellFormed /\ [][Next]_vars

\* ================================================================= claims
\* process_video has returned normally to upload_file (line 113 completed)
VideoRunSucceeded == is_video /\ pc = "record"

\* C1: when a video run completes successfully, the defect_count it returns is
\* the number of distinct track ids the tracker returned over all processed
\* frames of the run (the union over the run); an id seen again in a later
\* frame does not change it.
C1_DefectCountIsDistinctIds ==
  VideoRunSucceeded => outcome.defect_count = Cardinality(observed)

\* a successful run over three tracked frames in which an id came back and two
\* distinct ids were seen in all, as with ids 1, 2, 1
C1_Witness ==
  /\ VideoRunSucceeded
  /\ Len(written) = 3
  /\ reobserved
  /\ observed = {1, 2}
  /\ outcome.defect_count = 2

\* the positions of the non-empty frames among the frames read, in order
RECURSIVE NonEmptyFrames(_, _)
NonEmptyFrames(fs, i) ==
  IF i > Len(fs) THEN <<>>
  ELSE IF fs[i].empty THEN NonEmptyFrames(fs, i + 1)
  ELSE <<Annotated(i)>> \o NonEmptyFrames(fs, i + 1)

IsPrefix(a, b) == Len(a) <= Len(b) /\ SubSeq(b, 1, Len(a)) = a

\* the loop has ended by a failed read (line 67), not by an exception
ReachedEndOfStream ==
  is_video /\ (pc \in {"release", "record"} \/ (pc = "except" /\ cap = "released"))

\* C2: at every step of a video run the frames written to the sink are a prefix
\* of the non-empty frames read, in reading order (so none is written twice or
\* out of order), and at end-of-stream they are all of them.
C2_FrameOrder ==
  /\ IsPrefix(written, NonEmptyFrames(frames, 1))
  /\ ReachedEndOfStream => written = NonEmptyFrames(frames, 1)

\* end-of-stream after an empty frame was skipped between two written frames
C2_Witness ==
  /\ ReachedEndOfStream
  /\ Len(frames) = 3
  /\ frames[2].empty
  /\ written = <<1, 3>>

\* The ledger as the data model reads the file: its sequence of records, the
\* empty sequence for a file that is missing or holds no serialized sequence.
LedgerSeq(file) ==
  IF file.kind = "array"
    THEN [i \in 1..Len(file.items) |-> DecRecord(file.items[i])]
    ELSE <<>>

\* the step of upload_file that appends to the ledger and answers the caller
RecordingStep == pc \in {"record", "except"} /\ pc' = "idle"

\* the record that step appends (lines 130-135, 140-145)
AppendedRecord == IF pc = "record" THEN SuccessRecord ELSE FailedRecord

\* C3: after a record is appended (load_history, append, save_history), a
\* load_history returns a sequence whose last element is that record, for any
\* ledger state.  (load_history only reads: a repeated load is the same
\* function of the same file.)
C3_AppendThenLoad ==
  [][RecordingStep =>
       LET h == load_history(historyFile') IN
         /\ h.raised = None
         /\ h.value.type = "list"
         /\ Len(h.value.items) >= 1
         /\ h.value.items[Len(h.value.items)] = AppendedRecord]_vars

\* C4: load_history never raises and returns a sequence; for a missing file and
\* for every content that is not a serialized sequence, the empty sequence.
C4_LoadNeverRaises ==
  LET h == load_history(historyFile) IN
    /\ h.raised = None
    /\ h.value.type = "list"
    /\ historyFile.kind # "array" => h.value.items = <<>>

\* clear_history has returned
Cleared == op = "clear" /\ pc = "idle"

\* C5 as stated: after clear_history the ledger is empty and both storage
\* areas hold zero files, whichever deletions failed.
C5_ZeroFilesAfterClear ==
  Cleared => /\ LedgerSeq(historyFile) = <<>>
             /\ uploads = {}
             /\ DOMAIN reports = {}

\* C5 as amended: after clear_history the ledger file holds the empty sequence
\* and each storage area holds exactly the files whose deletion failed; a
\* failed deletion does not keep any other file from being deleted.
C5_ClearIsBestEffort ==
  Cleared => /\ load_history(historyFile) = [raised |-> None, value |-> PyList(<<>>)]
             /\ uploads = undeleted.uploads
             /\ DOMAIN reports = undeleted.reports

\* a clear during which the deletion of a processed video failed while the
\* upload it was made from was deleted
C5_Witness ==
  /\ Cleared
  /\ \E f \in uploads :
       /\ f \in undeleted.uploads
       /\ f.name.prefix = "processed_"
       /\ ~\E g \in uploads : g.name.prefix = "" /\ g.name.id = f.name.id

\* C6: in image mode, detections without track ids count one defect each.
C6_PerDetectionCount ==
  (~is_video /\ pc = "record" /\ ~results.has_id)
    => outcome.defect_count = results.boxes

\* C7: every upload that reaches the processing step appends exactly one
\* record: with a count and no error text after success, with the error text
\* and no count after an exception, which the response then describes.
C7_ExactlyOneRecord ==
  [][RecordingStep =>
       LET before == LedgerSeq(historyFile)
           after == LedgerSeq(historyFile')
       IN /\ Len(after) = Len(before) + 1
          /\ SubSeq(after, 1, Len(before)) = before
          /\ LET r == after[Len(after)] IN
               IF pc = "record"
                 THEN /\ "count_defect" \in DOMAIN r
                      /\ "error" \notin DOMAIN r
                      /\ r.count_defect = outcome.defect_count
                 ELSE /\ "error" \in DOMAIN r
                      /\ "count_defect" \notin DOMAIN r
                      /\ r.error = outcome.error
                      /\ response'.kind = "error"
                      /\ response'.text = outcome.error]_vars

\* process_video has been left, by return or by exception
VideoRunEnded == is_video /\ pc \in {"record", "except"}

\* C8: on every exit path of process_video the source and the sink have been
\* released.
C8_HandlesReleased ==
  VideoRunEnded => cap # "open" /\ out # "open"

\* line 61 has raised
SinkOpenFailed == is_video /\ pc = "except" /\ out = "failed"

\* C9: when the sink cannot be opened no frame is read, tracked or written, no
\* output file of non-zero size is left, and the run is recorded in the ledger
\* as a failed record carrying the error.
C9_SinkOpenFailure ==
  /\ [](SinkOpenFailed =>
          /\ frames = <<>>
          /\ written = <<>>
          /\ observed = {}
          /\ \A f \in uploads : f.name = OutputName => f.size = 0)
  /\ [][(SinkOpenFailed /\ pc' = "idle") =>
          LET before == LedgerSeq(historyFile)
              after == LedgerSeq(historyFile')
          IN /\ Len(after) = Len(before) + 1
             /\ "error" \in DOMAIN after[Len(after)]
             /\ after[Len(after)].error = "VideoWriter"
             /\ after[Len(after)].file = filename]_vars

\* a report request is served
ReportStep == pc = "idle" /\ op' = "report" /\ now' = now + 1

\* C10: a report request made while the ledger is empty (the file missing or
\* malformed included) answers "nothing to report" and leaves the report
\* storage area and the ledger file as they were.
C10_EmptyLedgerReport ==
  [][(ReportStep /\ LedgerSeq(historyFile) = <<>>) =>
       /\ response'.kind = "nothing"
       /\ reports' = reports
       /\ historyFile' = historyFile]_vars

\* model(filepath) has returned no box for an image (line 115)
ImageWithoutDetections ==
  /\ ~is_video
  /\ pc \in {"record", "except"}
  /\ results.boxes = 0
  /\ outcome.error # "detect"

\* C13: an image on which the detector returns no detection succeeds with
\* defect_count 0, its annotated file is written to the upload area, and a
\* success record is appended to the ledger.
C13_ZeroDetections ==
  /\ [](ImageWithoutDetections =>
          /\ pc = "record"
          /\ outcome.defect_count = 0
          /\ \E f \in uploads : f.name = Name("annotated_", filename.id, filename.ext))
  /\ [][(ImageWithoutDetections /\ pc' = "idle") =>
          LET after == LedgerSeq(historyFile') IN
            /\ Len(after) = Len(LedgerSeq(historyFile)) + 1
            /\ "count_defect" \in DOMAIN after[Len(after)]
            /\ after[Len(after)].count_defect = 0]_vars

\* the ledger file is absent or holds a serialized sequence of records
WellFormedLedger == historyFile.kind \in {"missing", "array"}

\* a clear request is served
ClearStep == pc = "idle" /\ op' = "clear" /\ now' = now + 1

\* C14: with a well-formed ledger file and no clear, the ledger before each
\* step of an upload or report request is a prefix of the ledger after it: the
\* recording step of an upload leaves the entries of the file as they were
\* and adds one entry after them, which reads back as the record of this
\* upload; every other step, a report request included, leaves the ledger
\* file as it was.
C14_AppendOnly ==
  [][(WellFormedLedger /\ ~ClearStep) =>
       IF RecordingStep
         THEN LET old == historyFile.items
                  new == historyFile'.items IN
                /\ historyFile'.kind = "array"
                /\ Len(new) = Len(old) + 1
                /\ SubSeq(new, 1, Len(old)) = old
                /\ DecRecord(new[Len(new)]) = AppendedRecord
         ELSE historyFile' = historyFile]_vars

\* an upload appended after the record of an earlier run, then a report served
C14_Witness ==
  /\ pc = "idle" /\ op = "report"
  /\ Len(LedgerSeq(historyFile)) = 2
  /\ LedgerSeq(historyFile)[1] = OldRecord
  /\ LedgerSeq(historyFile)[2].date = 1

\* generate_report has returned
ReportServed == op = "report" /\ pc = "idle"

\* C15: for a non-empty ledger the report table is the fixed header and one
\* row per record, in ledger order; a row is labelled "Video" for a video run
\* and "Picture" otherwise, and carries the record's count, 0 when it has
\* none; the side-file of the same request holds the same ledger snapshot.
C15_ReportTable ==
  (ReportServed /\ LedgerSeq(historyFile) # <<>>) =>
    LET ledger == LedgerSeq(historyFile) IN
      /\ DOMAIN reports = {JSON_NAME, PDF_NAME}
      /\ reports[PDF_NAME].header = <<"Date", "File", "Type", "Defect Count">>
      /\ Len(reports[PDF_NAME].rows) = Len(ledger)
      /\ \A i \in 1..Len(ledger) :
           LET row == reports[PDF_NAME].rows[i] IN
             /\ row.date = ledger[i].date
             /\ row.file = ledger[i].file
             /\ (row.type = "Video") = ledger[i].is_video
             /\ (row.type = "Picture") = ~ledger[i].is_video
             /\ IF "count_defect" \in DOMAIN ledger[i]
                  THEN row.count = PyStr(ledger[i].count_defect)
                  ELSE row.count = PyStr(0)
      /\ LedgerSeq(reports[JSON_NAME]) = ledger

\* a report over a ledger that holds a failed video run: its row is labelled
\* "Video" and counts 0
C15_Witness ==
  /\ ReportServed
  /\ PDF_NAME \in DOMAIN reports
  /\ \E i \in 1..Len(LedgerSeq(historyFile)) :
       /\ "error" \in DOMAIN LedgerSeq(historyFile)[i]
       /\ LedgerSeq(historyFile)[i].is_video
       /\ reports[PDF_NAME].rows[i].type = "Video"
       /\ reports[PDF_NAME].rows[i].count = PyStr(0)

\* cap.read() has delivered an empty frame in this step
EmptyFrameStep ==
  /\ pc = "loop"
  /\ Len(frames') = Len(frames) + 1
  /\ frames'[Len(frames')].empty

\* C17: an empty frame is skipped without ending the run: no tracker call, no
\* identity, nothing written, and the loop goes on; the loop is left for the
\* release only by a failed read, which consumes no frame and raises nothing;
\* every iteration that stays in the loop consumes one frame of the source, so
\* a finite source ends the loop.
C17_EmptyFrameSkipped ==
  [][/\ EmptyFrameStep =>
          /\ pc' = "loop"
          /\ UNCHANGED <<observed, unique_ids, written, cap, out, outcome>>
     /\ (pc = "loop" /\ pc' = "release") =>
          /\ frames' = frames
          /\ outcome' = outcome
     /\ (pc = "loop" /\ pc' = "loop") => Len(frames') = Len(frames) + 1
     /\ Len(frames') <= MaxFrames]_vars

\* end-of-stream after an empty first frame was skipped and the next written
C17_Witness ==
  /\ is_video /\ pc = "release"
  /\ Len(frames) = 2
  /\ frames[1].empty
  /\ written = <<2>>

\* the loop has ended and the output file is found empty (line 87)
OutputEmpty ==
  /\ is_video
  /\ cap = "released"
  /\ pc \in {"record", "except"}
  /\ \A f \in uploads : f.name = OutputName => f.size = 0

\* C18: a video run returns successfully only with an output file of non-zero
\* size; with an empty output file the run fails with a processing error and
\* is recorded as a failed record, never as a success with a count.
C18_EmptyOutputFails ==
  /\ [](VideoRunSucceeded => \E f \in uploads : f.name = OutputName /\ f.size > 0)
  /\ [](OutputEmpty => pc = "except" /\ outcome.error = "no frames")
  /\ [][(OutputEmpty /\ pc' = "idle") =>
          LET after == LedgerSeq(historyFile') IN
            /\ Len(after) = Len(LedgerSeq(historyFile)) + 1
            /\ "error" \in DOMAIN after[Len(after)]
            /\ "count_defect" \notin DOMAIN after[Len(after)]]_vars

\* thread r executes load_history in this step
LoadBy(r) == threads[r].pc = "start" /\ threads'[r].pc # "start"

\* C11: a load that overlaps a save_history in progress returns the full
\* sequence from before the append or the full sequence after it, never a
\* partially written or emptied file.
C11_ReaderSeesWholeLedger ==
  [][\A r \in Threads, w \in Threads :
       (r # w /\ LoadBy(r) /\ Saving(w)) =>
          threads'[r].loaded \in {threads[w].loaded, ThreadHistory(w)}]_vars

\* every overlapping request is an upload and has returned
UploadsFinished ==
  \A t \in Threads : threads[t].role = "upload" /\ threads[t].pc = "done"

\* C12: after overlapping uploads have finished, every record that was in the
\* ledger before they began is still there in its original position, and the
\* record of at least one of them is in the ledger.
C12_LastWriterWins ==
  UploadsFinished =>
    LET ledger == LedgerSeq(historyFile) IN
      /\ IsPrefix(original, ledger)
      /\ \E t \in Threads : \E i \in 1..Len(ledger) : ledger[i] = ThreadRecord(t)

\* model.track is called in this step (line 71)
TrackingCall ==
  /\ pc = "loop"
  /\ Len(frames') = Len(frames) + 1
  /\ ~frames'[Len(frames')].empty

\* C16: the first tracking call of a video run finds a tracker without
\* identity state from an earlier run, and between the frames of one run the
\* tracker is never set up anew.
C16_TrackerResetPerRun ==
  [][/\ (TrackingCall /\ written = <<>>) => ~tracker
     /\ (pc = "loop" /\ pc' = "loop" /\ tracker) => tracker']_vars

====
